---- MODULE Spec2Model ----
(***************************************************************************)
(* A model of fastkml/data.py: Schema, Data, ExtendedData and SchemaData,  *)
(* their mutators and their mapping from and to element trees.             *)
(*                                                                         *)
(* One behaviour follows the life of one object (obj) from construction    *)
(* on; the objects of data.py share no state.  Every method is one action. *)
(* An action records the receiver before the call (pre), the method (op),  *)
(* its argument (arg), how the call ended (err: "ok" or the exception      *)
(* raised) and the element an etree_element call returned (out).           *)
(*                                                                         *)
(* The base classes (fastkml.base) and the element tree library are not    *)
(* part of data.py.  An element is modelled by what data.py reads from it  *)
(* (get, find, findall, text) and writes to it (set, SubElement, text);    *)
(* elements handed to from_element carry the tag of the receiving class.   *)
(***************************************************************************)
EXTENDS Integers, Sequences, FiniteSets, TLC

VARIABLES obj, pre, op, arg, err, out, decoded

vars == <<obj, pre, op, arg, err, out, decoded>>

(***************************************************************************)
(* Bounds of the model.                                                    *)
(***************************************************************************)
\* longest sequence handed to a call (setter input, children of an element)
MaxLen == 2
\* longest sequence an object is grown to by append, append_data and
\* Schema.from_element
MaxSize == 3

(***************************************************************************)
(* Python values.  None, a str and an int are kept apart by a tag, so that *)
(* isinstance and truthiness are decided as Python decides them.           *)
(***************************************************************************)
NoneV == [t |-> "none", v |-> ""]

Str(s) == [t |-> "str", v |-> s]

Num(s) == [t |-> "int", v |-> s]

\* isinstance(x, str)
IsStr(x) == x.t = "str"

\* bool(x)
Truthy(x) == ~(x.t = "none" \/ (x.t = "str" /\ x.v = "") \/ (x.t = "int" /\ x.v = "0"))

\* isinstance(x, str) and x
IsNonEmptyStr(x) == IsStr(x) /\ Truthy(x)

\* all sequences over S of length at most n
SeqUpTo(S, n) == UNION {[1..k -> S] : k \in 0..n}

NoObj == [cls |-> "none"]

NoOut == [tag |-> "none"]

NoDecoded == [valid |-> FALSE]

\* an argument that is None, a tuple or list, or of another type
NoneArg == [shape |-> "none", elems |-> <<>>]

SeqArg(elems) == [shape |-> "seq", elems |-> elems]

OtherArg(shape) == [shape |-> shape, elems |-> <<>>]

(***************************************************************************)
(* SchemaData                                                              *)
(***************************************************************************)
SchemaDataObj(schema_url, data) == [cls |-> "SchemaData", schema_url |-> schema_url, data |-> data]

\* SchemaData.append_data with only the isinstance test
AppendDataAnyStr(data, name, value) ==
    IF IsStr(name)
    THEN [data |-> Append(data, [name |-> name, value |-> value]), err |-> "ok"]
    ELSE [data |-> data, err |-> "TypeError"]

\* SchemaData.append_data: the list after the call and how the call ended
AppendData(data, name, value) ==
    IF IsNonEmptyStr(name)
    THEN [data |-> Append(data, [name |-> name, value |-> value]), err |-> "ok"]
    ELSE [data |-> data, err |-> "TypeError"]

\* The body of the setter's loop for one element d.  A tuple or list is
\* spread over append_data's two positional parameters and a dict over its
\* two keyword parameters (d.items holds the values of name and value in
\* that order); any other number of items makes the call itself raise
\* TypeError.  An element of any other type runs neither branch.
SetterStep(data, d) ==
    IF d.shape = "seq" \/ d.shape = "dict"
    THEN IF Len(d.items) = 2
         THEN AppendData(data, d.items[1], d.items[2])
         ELSE [data |-> data, err |-> "TypeError"]
    ELSE [data |-> data, err |-> "ok"]

\* for d in data: ..., left at the first exception
RECURSIVE SetterLoop(_, _)
SetterLoop(data, elems) ==
    IF elems = <<>>
    THEN [data |-> data, err |-> "ok"]
    ELSE LET r == SetterStep(data, Head(elems))
         IN  IF r.err = "ok" THEN SetterLoop(r.data, Tail(elems)) ELSE r

\* the setter without its self._data = []
DataSetterKeeping(cur, input) ==
    IF input.shape = "seq"
    THEN SetterLoop(cur, input.elems)
    ELSE IF input.shape = "none"
         THEN [data |-> <<>>, err |-> "ok"]
         ELSE [data |-> cur, err |-> "TypeError"]

\* SchemaData.data (setter) on a record holding cur
DataSetter(cur, input) ==
    IF input.shape = "seq"
    THEN SetterLoop(<<>>, input.elems)
    ELSE IF input.shape = "none"
         THEN [data |-> <<>>, err |-> "ok"]
         ELSE [data |-> cur, err |-> "TypeError"]

\* SchemaData.__init__: the object made (NoObj when it raises)
SchemaDataInit(schema_url, data) ==
    IF ~IsNonEmptyStr(schema_url)
    THEN [obj |-> NoObj, err |-> "ValueError"]
    ELSE LET s == DataSetter(<<>>, data)
         IN  IF s.err = "ok"
             THEN [obj |-> SchemaDataObj(schema_url, s.data), err |-> "ok"]
             ELSE [obj |-> NoObj, err |-> s.err]

\* for sd in simple_data: self.append_data(sd.get("name"), sd.text)
RECURSIVE SimpleDataLoop(_, _)
SimpleDataLoop(data, kids) ==
    IF kids = <<>>
    THEN [data |-> data, err |-> "ok"]
    ELSE LET r == AppendData(data, Head(kids).name, Head(kids).text)
         IN  IF r.err = "ok" THEN SimpleDataLoop(r.data, Tail(kids)) ELSE r

\* SchemaData.from_element that keeps the data held before
SchemaDataFromElementKeeping(o, node) ==
    LET r == SimpleDataLoop(o.data, node.kids)
    IN  [obj |-> SchemaDataObj(node.schemaUrl, r.data), err |-> r.err]

\* SchemaData.from_element: the record after the call and how the call ended
SchemaDataFromElement(o, node) ==
    LET r == SimpleDataLoop(DataSetter(o.data, SeqArg(<<>>)).data, node.kids)
    IN  [obj |-> SchemaDataObj(node.schemaUrl, r.data), err |-> r.err]

\* one SimpleData child: sd.set("name", data["name"]); sd.text = data["value"]
SimpleDataOf(d) == [name |-> d.name, text |-> d.value]

\* SchemaData.etree_element: the element built
SchemaDataEtreeElement(o) ==
    [tag |-> "SchemaData",
     schemaUrl |-> o.schema_url,
     kids |-> [i \in 1..Len(o.data) |-> SimpleDataOf(o.data[i])]]

\* How building that element can end.  set() is handed schema_url and the
\* names, and text the values, as they are; what the tree library does
\* with an attribute that is no str, or a text that is neither str nor
\* None, is the library's choice (lxml raises TypeError, xml.etree keeps it).
SchemaDataEtreeOutcomes(o) ==
    IF /\ IsStr(o.schema_url)
       /\ \A i \in 1..Len(o.data) : IsStr(o.data[i].name) /\ o.data[i].value.t # "int"
    THEN {"ok"}
    ELSE {"ok", "TypeError"}

(***************************************************************************)
(* Inputs of the SchemaData calls.                                         *)
(***************************************************************************)
Names == {Str("a"), Str("b"), Str(""), NoneV, Num("7")}

Values == {Str("v"), Num("1")}

SeqElem(items) == [shape |-> "seq", items |-> items]

DictElem(name, value) == [shape |-> "dict", items |-> <<name, value>>]

OtherElem == [shape |-> "other", items |-> <<>>]

\* elements of a sequence handed to the setter: pairs and dicts with good
\* names, a pair with an empty name, a 1-tuple, and an element that is
\* neither a tuple or list nor a dict (a bare str)
Elems ==
    {SeqElem(<<Str("a"), Str("v")>>), DictElem(Str("b"), Num("1")),
     DictElem(Str("a"), Num("1")), SeqElem(<<Str(""), Str("v")>>),
     SeqElem(<<Str("a")>>), OtherElem}

\* what the setter is handed: a tuple or list, None, a dict, a scalar
SetterInputs ==
    {SeqArg(e) : e \in SeqUpTo(Elems, MaxLen)} \cup {NoneArg, OtherArg("dict"), OtherArg("scalar")}

\* the data argument of SchemaData.__init__
InitInputs == {SeqArg(e) : e \in SeqUpTo(Elems, 1)} \cup {NoneArg, OtherArg("dict")}

SchemaUrls == {Str("#s"), Str(""), NoneV, Num("7")}

SimpleDataNodes ==
    {[name |-> Str("a"), text |-> Str("9")], [name |-> Str("b"), text |-> NoneV],
     [name |-> NoneV, text |-> Str("9")], [name |-> Str(""), text |-> Str("9")]}

\* <SchemaData> elements: get("schemaUrl") and the SimpleData children
SchemaDataNodes ==
    {[tag |-> "SchemaData", schemaUrl |-> u, kids |-> k] :
        u \in {Str("#t"), NoneV}, k \in SeqUpTo(SimpleDataNodes, MaxLen)}

(***************************************************************************)
(* Schema and SimpleField                                                  *)
(***************************************************************************)
\* the values of fastkml.enums.DataType, as SimpleField's docstring lists them
DataTypes == {"string", "int", "uint", "short", "ushort", "float", "double", "bool"}

\* SimpleField(name, type, display_name); type holds the DataType's value
SimpleField(name, type, display_name) ==
    [name |-> name, type |-> type, display_name |-> display_name]

SchemaObj(id, name, fields) == [cls |-> "Schema", id |-> id, name |-> name, fields |-> fields]

\* a child that find() may or may not return, and its text
Found(text) == [found |-> TRUE, text |-> text]

NotFound == [found |-> FALSE, text |-> NoneV]

\* Schema.__init__: list(fields) if fields else []
SchemaInit(id, name, fields) ==
    IF id = NoneV
    THEN [obj |-> NoObj, err |-> "KMLSchemaError"]
    ELSE [obj |-> SchemaObj(id, name, IF fields.shape = "seq" THEN fields.elems ELSE <<>>),
          err |-> "ok"]

\* Schema.simple_fields (setter)
SchemaSetFields(o, fields) == [o EXCEPT !.fields = fields]

\* Schema.append
SchemaAppend(o, field) == [o EXCEPT !.fields = Append(o.fields, field)]

\* the loop of Schema.from_element over the SimpleField children; DataType(sftype)
\* raises ValueError for a type attribute that is absent or names no DataType
RECURSIVE SimpleFieldLoop(_, _)
SimpleFieldLoop(o, kids) ==
    IF kids = <<>>
    THEN [obj |-> o, err |-> "ok"]
    ELSE LET sf == Head(kids)
             sfdisplay_name == IF sf.displayName.found THEN sf.displayName.text ELSE NoneV
         IN  IF IsStr(sf.type) /\ sf.type.v \in DataTypes
             THEN SimpleFieldLoop(SchemaAppend(o, SimpleField(sf.name, sf.type, sfdisplay_name)),
                                  Tail(kids))
             ELSE [obj |-> o, err |-> "ValueError"]

\* Schema.from_element that empties the fields first
SchemaFromElementResetting(o, node) ==
    SimpleFieldLoop([o EXCEPT !.name = node.name, !.fields = <<>>], node.kids)

\* Schema.from_element: the schema after the call and how the call ended
SchemaFromElement(o, node) == SimpleFieldLoop([o EXCEPT !.name = node.name], node.kids)

\* one SimpleField child with display_name tested against None
SimpleFieldElementNotNone(f) ==
    [type |-> f.type,
     name |-> f.name,
     displayName |-> IF f.display_name # NoneV THEN Found(f.display_name) ELSE NotFound]

\* one SimpleField child of the element Schema.etree_element builds
SimpleFieldElement(f) ==
    [type |-> f.type,
     name |-> f.name,
     displayName |-> IF Truthy(f.display_name) THEN Found(f.display_name) ELSE NotFound]

\* Schema.etree_element: the element built (name is set only if truthy)
SchemaEtreeElement(o) ==
    [tag |-> "Schema",
     name |-> IF Truthy(o.name) THEN o.name ELSE NoneV,
     kids |-> [i \in 1..Len(o.fields) |-> SimpleFieldElement(o.fields[i])]]

\* How building that element can end: a field name that is no str is handed
\* to set() as it is, and the tree library decides (see SchemaDataEtreeOutcomes)
SchemaEtreeOutcomes(o) ==
    IF \A i \in 1..Len(o.fields) : IsStr(o.fields[i].name)
    THEN {"ok"}
    ELSE {"ok", "TypeError"}

(***************************************************************************)
(* Data                                                                    *)
(***************************************************************************)
\* Data.__init__
DataObj(name, value, display_name) ==
    [cls |-> "Data", name |-> name, value |-> value, display_name |-> display_name]

\* Data.from_element that assigns the text or None whether or not the child exists
DataFromElementAssigning(o, node) ==
    [o EXCEPT !.name = node.name,
              !.value = IF node.value.found THEN node.value.text ELSE NoneV,
              !.display_name = IF node.displayName.found THEN node.displayName.text ELSE NoneV]

\* Data.from_element
DataFromElement(o, node) ==
    [o EXCEPT !.name = node.name,
              !.value = IF node.value.found THEN node.value.text ELSE @,
              !.display_name = IF node.displayName.found THEN node.displayName.text ELSE @]

\* Data.etree_element
DataEtreeElement(o) ==
    [tag |-> "Data",
     name |-> IF Truthy(o.name) THEN o.name ELSE Str(""),
     value |-> Found(o.value),
     displayName |-> IF Truthy(o.display_name) THEN Found(o.display_name) ELSE NotFound]

(***************************************************************************)
(* ExtendedData                                                            *)
(***************************************************************************)
\* ExtendedData.__init__: elements or []
ExtendedDataInit(elements) ==
    [cls |-> "ExtendedData", elements |-> IF elements.shape = "seq" THEN elements.elems ELSE <<>>]

\* element.findall(tag) over the immediate children, in document order
FindAll(kids, tag) == SelectSeq(kids, LAMBDA k : k.tag = tag)

\* for ud in untyped_data: a new Data(self.ns) decodes ud and is appended
RECURSIVE UntypedLoop(_, _)
UntypedLoop(elements, uds) ==
    IF uds = <<>>
    THEN elements
    ELSE UntypedLoop(Append(elements, DataFromElement(DataObj(NoneV, NoneV, NoneV), Head(uds))),
                     Tail(uds))

\* for sd in typed_data: a new SchemaData(self.ns, "dummy") decodes sd and is
\* appended; an exception of its from_element leaves the loop before the append
RECURSIVE TypedLoop(_, _)
TypedLoop(elements, sds) ==
    IF sds = <<>>
    THEN [elements |-> elements, err |-> "ok"]
    ELSE LET el_schema_data == SchemaDataInit(Str("dummy"), NoneArg).obj
             r == SchemaDataFromElement(el_schema_data, Head(sds))
         IN  IF r.err = "ok"
             THEN TypedLoop(Append(elements, r.obj), Tail(sds))
             ELSE [elements |-> elements, err |-> r.err]

\* one pass over the children in document order, decoding each by its tag
RECURSIVE DocumentOrderLoop(_, _)
DocumentOrderLoop(elements, kids) ==
    IF kids = <<>>
    THEN [elements |-> elements, err |-> "ok"]
    ELSE IF Head(kids).tag = "Data"
         THEN DocumentOrderLoop(UntypedLoop(elements, <<Head(kids)>>), Tail(kids))
         ELSE IF Head(kids).tag = "SchemaData"
              THEN LET r == TypedLoop(elements, <<Head(kids)>>)
                   IN  IF r.err = "ok" THEN DocumentOrderLoop(r.elements, Tail(kids)) ELSE r
              ELSE DocumentOrderLoop(elements, Tail(kids))

\* ExtendedData.from_element decoding the children in one pass
ExtendedDataFromElementInOrder(o, node) ==
    LET r == DocumentOrderLoop(<<>>, node.kids)
    IN  [obj |-> [o EXCEPT !.elements = r.elements], err |-> r.err]

\* ExtendedData.from_element: the container after the call and how it ended
ExtendedDataFromElement(o, node) ==
    LET r == TypedLoop(UntypedLoop(<<>>, FindAll(node.kids, "Data")),
                       FindAll(node.kids, "SchemaData"))
    IN  [obj |-> [o EXCEPT !.elements = r.elements], err |-> r.err]

(***************************************************************************)
(* Inputs of the Schema, Data and ExtendedData calls.                      *)
(***************************************************************************)
Fields ==
    {SimpleField(Str("f"), Str("string"), NoneV), SimpleField(Str("g"), Str("int"), Str("d")),
     SimpleField(Str("f"), Str("int"), Str(""))}

\* <SimpleField> children: get("name"), get("type"), find(displayName)
SimpleFieldNodes ==
    {[name |-> Str("f"), type |-> Str("string"), displayName |-> NotFound],
     [name |-> Str("g"), type |-> Str("int"), displayName |-> Found(Str("d"))],
     [name |-> Str("f"), type |-> NoneV, displayName |-> NotFound]}

SchemaNodes ==
    {[tag |-> "Schema", name |-> n, kids |-> k] :
        n \in {NoneV, Str("n")}, k \in SeqUpTo(SimpleFieldNodes, MaxLen)}

\* <Data> elements: get("name"), find(value), find(displayName)
DataNodes ==
    {[tag |-> "Data", name |-> n, value |-> v, displayName |-> d] :
        n \in {NoneV, Str("a"), Str("b")},
        v \in {NotFound, Found(Str("2")), Found(NoneV)},
        d \in {NotFound, Found(Str("e"))}}

\* children of an <ExtendedData> element: two Data, a SchemaData, a
\* SchemaData holding a SimpleData without a name, and a child of another tag
ExtendedDataChildren ==
    {[tag |-> "Data", name |-> Str("a"), value |-> Found(Str("1")), displayName |-> NotFound],
     [tag |-> "Data", name |-> NoneV, value |-> NotFound, displayName |-> Found(Str("e"))],
     [tag |-> "SchemaData", schemaUrl |-> Str("#t"),
      kids |-> <<[name |-> Str("a"), text |-> Str("9")]>>],
     [tag |-> "SchemaData", schemaUrl |-> Str("#u"),
      kids |-> <<[name |-> NoneV, text |-> Str("9")]>>],
     [tag |-> "Snippet"]}

ExtendedDataNodes ==
    {[tag |-> "ExtendedData", kids |-> k] : k \in SeqUpTo(ExtendedDataChildren, MaxLen)}

\* the elements argument of ExtendedData.__init__
ElementLists ==
    {NoneArg, SeqArg(<<>>), SeqArg(<<DataObj(Str("b"), Str("1"), NoneV)>>),
     SeqArg(<<SchemaDataObj(Str("#s"), <<>>), DataObj(Str("b"), Str("1"), NoneV)>>)}

(***************************************************************************)
(* Actions: one per method.                                                *)
(***************************************************************************)
\* what every call records: the receiver before it, the method, no element
Called(method) ==
    /\ pre' = obj
    /\ op' = method
    /\ out' = NoOut

SD_Init ==
    /\ obj = NoObj
    /\ \E u \in SchemaUrls, d \in InitInputs :
          LET r == SchemaDataInit(u, d)
          IN  /\ obj' = r.obj
              /\ err' = r.err
              /\ arg' = [schema_url |-> u, data |-> d]
    /\ Called("SchemaData.__init__")
    /\ decoded' = NoDecoded

SD_SetData ==
    /\ obj.cls = "SchemaData"
    /\ \E d \in SetterInputs :
          LET r == DataSetter(obj.data, d)
          IN  /\ obj' = [obj EXCEPT !.data = r.data]
              /\ err' = r.err
              /\ arg' = d
    /\ Called("SchemaData.data")
    /\ decoded' = NoDecoded

SD_AppendData ==
    /\ obj.cls = "SchemaData"
    /\ Len(obj.data) < MaxSize
    /\ \E n \in Names, v \in Values :
          LET r == AppendData(obj.data, n, v)
          IN  /\ obj' = [obj EXCEPT !.data = r.data]
              /\ err' = r.err
              /\ arg' = [name |-> n, value |-> v]
    /\ Called("SchemaData.append_data")
    /\ decoded' = NoDecoded

\* decoded remembers the element the record was last decoded from
SD_FromElement ==
    /\ obj.cls = "SchemaData"
    /\ \E node \in SchemaDataNodes :
          LET r == SchemaDataFromElement(obj, node)
          IN  /\ obj' = r.obj
              /\ err' = r.err
              /\ arg' = node
              /\ decoded' = [valid |-> TRUE, node |-> node, err |-> r.err]
    /\ Called("SchemaData.from_element")

SD_EtreeElement ==
    /\ obj.cls = "SchemaData"
    /\ \E e \in SchemaDataEtreeOutcomes(obj) :
          /\ err' = e
          /\ out' = IF e = "ok" THEN SchemaDataEtreeElement(obj) ELSE NoOut
    /\ pre' = obj
    /\ op' = "SchemaData.etree_element"
    /\ arg' = NoneV
    /\ UNCHANGED <<obj, decoded>>

Schema_Init ==
    /\ obj = NoObj
    /\ \E id \in {NoneV, Str("id1")}, n \in {NoneV, Str("m")},
          f \in {NoneArg} \cup {SeqArg(e) : e \in SeqUpTo(Fields, MaxLen)} :
          LET r == SchemaInit(id, n, f)
          IN  /\ obj' = r.obj
              /\ err' = r.err
              /\ arg' = [id |-> id, name |-> n, fields |-> f]
    /\ Called("Schema.__init__")
    /\ decoded' = NoDecoded

Schema_SetFields ==
    /\ obj.cls = "Schema"
    /\ \E f \in SeqUpTo(Fields, MaxLen) :
          /\ obj' = SchemaSetFields(obj, f)
          /\ arg' = f
    /\ err' = "ok"
    /\ Called("Schema.simple_fields")
    /\ decoded' = NoDecoded

Schema_Append ==
    /\ obj.cls = "Schema"
    /\ Len(obj.fields) < MaxSize
    /\ \E f \in Fields :
          /\ obj' = SchemaAppend(obj, f)
          /\ arg' = f
    /\ err' = "ok"
    /\ Called("Schema.append")
    /\ decoded' = NoDecoded

Schema_FromElement ==
    /\ obj.cls = "Schema"
    /\ \E node \in SchemaNodes :
          /\ Len(obj.fields) + Len(node.kids) <= MaxSize
          /\ LET r == SchemaFromElement(obj, node)
             IN  /\ obj' = r.obj
                 /\ err' = r.err
                 /\ arg' = node
    /\ Called("Schema.from_element")
    /\ decoded' = NoDecoded

Schema_EtreeElement ==
    /\ obj.cls = "Schema"
    /\ \E e \in SchemaEtreeOutcomes(obj) :
          /\ err' = e
          /\ out' = IF e = "ok" THEN SchemaEtreeElement(obj) ELSE NoOut
    /\ pre' = obj
    /\ op' = "Schema.etree_element"
    /\ arg' = NoneV
    /\ UNCHANGED <<obj, decoded>>

Data_Init ==
    /\ obj = NoObj
    /\ \E n \in {NoneV, Str("a")}, v \in {NoneV, Str("1")}, d \in {NoneV, Str(""), Str("d")} :
          /\ obj' = DataObj(n, v, d)
          /\ arg' = [name |-> n, value |-> v, display_name |-> d]
    /\ err' = "ok"
    /\ Called("Data.__init__")
    /\ decoded' = NoDecoded

Data_FromElement ==
    /\ obj.cls = "Data"
    /\ \E node \in DataNodes :
          /\ obj' = DataFromElement(obj, node)
          /\ arg' = node
    /\ err' = "ok"
    /\ Called("Data.from_element")
    /\ decoded' = NoDecoded

Data_EtreeElement ==
    /\ obj.cls = "Data"
    /\ out' = DataEtreeElement(obj)
    /\ err' = "ok"
    /\ pre' = obj
    /\ op' = "Data.etree_element"
    /\ arg' = NoneV
    /\ UNCHANGED <<obj, decoded>>

Ext_Init ==
    /\ obj = NoObj
    /\ \E e \in ElementLists :
          /\ obj' = ExtendedDataInit(e)
          /\ arg' = e
    /\ err' = "ok"
    /\ Called("ExtendedData.__init__")
    /\ decoded' = NoDecoded

Ext_FromElement ==
    /\ obj.cls = "ExtendedData"
    /\ \E node \in ExtendedDataNodes :
          LET r == ExtendedDataFromElement(obj, node)
          IN  /\ obj' = r.obj
              /\ err' = r.err
              /\ arg' = node
    /\ Called("ExtendedData.from_element")
    /\ decoded' = NoDecoded

(***************************************************************************)
(* Specifications.                                                         *)
(***************************************************************************)
Init ==
    /\ obj = NoObj
    /\ pre = NoObj
    /\ op = "none"
    /\ arg = NoneV
    /\ err = "ok"
    /\ out = NoOut
    /\ decoded = NoDecoded

Next ==
    \/ SD_Init \/ SD_SetData \/ SD_AppendData \/ SD_FromElement \/ SD_EtreeElement
    \/ Schema_Init \/ Schema_SetFields \/ Schema_Append \/ Schema_FromElement
    \/ Schema_EtreeElement
    \/ Data_Init \/ Data_FromElement \/ Data_EtreeElement
    \/ Ext_Init \/ Ext_FromElement

\* every class and every method
Spec == Init /\ [][Next]_vars

\* a SchemaData under its mutators
NextSchemaData == SD_Init \/ SD_SetData \/ SD_AppendData

SpecSchemaData == Init /\ [][NextSchemaData]_vars

\* a SchemaData decoded and encoded
NextCodec == SD_Init \/ SD_FromElement \/ SD_EtreeElement

SpecCodec == Init /\ [][NextCodec]_vars

\* a Schema constructed, appended to, replaced and encoded
NextSchema == Schema_Init \/ Schema_SetFields \/ Schema_Append \/ Schema_EtreeElement

SpecSchema == Init /\ [][NextSchema]_vars

\* the three from_element that fill a sequence
NextDecode ==
    \/ Schema_Init \/ Schema_Append \/ Schema_FromElement
    \/ SD_Init \/ SD_FromElement
    \/ Ext_Init \/ Ext_FromElement

SpecDecode == Init /\ [][NextDecode]_vars

\* a Data constructed, decoded and encoded
NextData == Data_Init \/ Data_FromElement \/ Data_EtreeElement

SpecData == Init /\ [][NextData]_vars
(***************************************************************************)
(* Properties.                                                             *)
(***************************************************************************)
\* the children of an element with a tag, in document order
Tagged(node, tag) == SelectSeq(node.kids, LAMBDA k : k.tag = tag)

\* the text of a child that may be absent, None when it is
TextOrNone(child) == IF child.found THEN child.text ELSE NoneV

\* how often x occurs in a sequence
Count(seq, x) == Cardinality({i \in DOMAIN seq : seq[i] = x})

\* two sequences hold the same elements the same number of times
SameMultiset(s, t) ==
    \A x \in {s[i] : i \in DOMAIN s} \cup {t[i] : i \in DOMAIN t} : Count(s, x) = Count(t, x)

\* the (name attribute, text) pairs of the SimpleData children of an element
SimpleDataPairs(node) == [i \in DOMAIN node.kids |-> <<node.kids[i].name, node.kids[i].text>>]

\* every SimpleData child of the element has a non-empty name attribute
AllNamed(node) == \A k \in DOMAIN node.kids : IsNonEmptyStr(node.kids[k].name)

\* every SimpleData child of every SchemaData child has a non-empty name attribute
AllTypedNamed(node) ==
    \A i \in DOMAIN node.kids : node.kids[i].tag = "SchemaData" => AllNamed(node.kids[i])

\* elements is one Data per Data child in document order, then one SchemaData
\* per SchemaData child in document order, each holding what its child holds
GroupedByTag(elements, node) ==
    LET ds == Tagged(node, "Data")
        ss == Tagged(node, "SchemaData")
    IN  /\ Len(elements) = Len(ds) + Len(ss)
        /\ \A i \in DOMAIN ds :
              /\ elements[i].cls = "Data"
              /\ elements[i].name = ds[i].name
              /\ elements[i].value = TextOrNone(ds[i].value)
              /\ elements[i].display_name = TextOrNone(ds[i].displayName)
        /\ \A j \in DOMAIN ss :
              LET e == elements[Len(ds) + j]
              IN  /\ e.cls = "SchemaData"
                  /\ e.schema_url = ss[j].schemaUrl
                  /\ Len(e.data) = Len(ss[j].kids)
                  /\ \A k \in DOMAIN ss[j].kids :
                        e.data[k] = [name |-> ss[j].kids[k].name, value |-> ss[j].kids[k].text]

IsPairOrMapping(d) == d.shape \in {"seq", "dict"} /\ Len(d.items) = 2

\* C2: setting data to a sequence of (name, value) pairs and {name, value}
\* mappings with non-empty string names leaves data equal to one {name, value}
\* record per input element, in input order, whatever data held before;
\* setting it to None leaves data empty.
C2_SetterReplaces ==
    op = "SchemaData.data" =>
        /\ (/\ arg.shape = "seq"
            /\ \A i \in DOMAIN arg.elems :
                  IsPairOrMapping(arg.elems[i]) /\ IsNonEmptyStr(arg.elems[i].items[1]))
           => /\ err = "ok"
              /\ obj.data = [i \in DOMAIN arg.elems |->
                                [name |-> arg.elems[i].items[1], value |-> arg.elems[i].items[2]]]
        /\ arg.shape = "none" => (err = "ok" /\ obj.data = <<>>)

\* C2 witness: a record holding data was set to [mapping, pair].
C2_Witness ==
    /\ op = "SchemaData.data"
    /\ err = "ok"
    /\ pre.data # <<>>
    /\ arg.shape = "seq"
    /\ Len(arg.elems) = 2
    /\ arg.elems[1].shape = "dict"
    /\ arg.elems[2].shape = "seq"
    /\ Len(obj.data) = 2

\* C3: append_data(name, value) raises TypeError exactly when name is not a
\* non-empty string, a failing call leaves the record as it was, and a
\* successful call leaves data equal to the previous data followed by
\* {name, value}.
C3_AppendData ==
    op = "SchemaData.append_data" =>
        /\ err \in {"ok", "TypeError"}
        /\ err = "TypeError" <=> ~IsNonEmptyStr(arg.name)
        /\ err = "TypeError" => obj = pre
        /\ err = "ok" =>
              /\ obj.data = pre.data \o <<[name |-> arg.name, value |-> arg.value]>>
              /\ obj.schema_url = pre.schema_url

\* C3 witness: an entry was appended whose name an earlier entry already has,
\* with another value.
C3_Witness ==
    /\ op = "SchemaData.append_data"
    /\ err = "ok"
    /\ \E i \in DOMAIN pre.data :
          pre.data[i].name = arg.name /\ pre.data[i].value # arg.value

\* C4: the schema_url of every SchemaData is a non-empty string, after any
\* sequence of setter, append_data and from_element calls, and __init__ with
\* a schema_url that is not a non-empty string fails and makes no object.
C4_SchemaUrlNonEmpty ==
    /\ obj.cls = "SchemaData" => IsNonEmptyStr(obj.schema_url)
    /\ (op = "SchemaData.__init__" /\ ~IsNonEmptyStr(arg.schema_url))
          => (err # "ok" /\ obj = NoObj)

\* the element has the schemaUrl and the multiset of SimpleData pairs of node
SameSchemaData(element, node) ==
    /\ element.schemaUrl = node.schemaUrl
    /\ SameMultiset(SimpleDataPairs(element), SimpleDataPairs(node))

C6_OneChildPerField ==
    op = "Schema.etree_element" =>
        /\ err = "ok"
        /\ Len(out.kids) = Len(obj.fields)
        /\ \A i \in DOMAIN obj.fields :
              /\ out.kids[i].name = obj.fields[i].name
              /\ out.kids[i].type = obj.fields[i].type
              /\ out.kids[i].displayName.found <=> IsNonEmptyStr(obj.fields[i].display_name)
              /\ out.kids[i].displayName.found
                    => out.kids[i].displayName.text = obj.fields[i].display_name

\* C6 witness: a Schema holding the same field twice and a field with an
\* empty display name was encoded.
C6_Witness ==
    /\ op = "Schema.etree_element"
    /\ Len(obj.fields) >= 2
    /\ \E i, j \in DOMAIN obj.fields : i # j /\ obj.fields[i] = obj.fields[j]
    /\ \E i \in DOMAIN obj.fields : obj.fields[i].display_name = Str("")
    /\ Len(out.kids) = Len(obj.fields)

\* a sequence all of whose elements are (name, value) pairs or mappings, or None
AcceptedShape(input) ==
    \/ input.shape = "none"
    \/ /\ input.shape = "seq"
       /\ \A i \in DOMAIN input.elems : IsPairOrMapping(input.elems[i])

\* C7: the data setter raises TypeError for every input that is neither None
\* nor a sequence whose elements are all (name, value) pairs or {name, value}
\* mappings, an element that is neither included.
C7_OtherShapesFail == (op = "SchemaData.data" /\ ~AcceptedShape(arg)) => err = "TypeError"

\* C8: a data setter call that fails leaves data as it was before the call.
C8_FailedSetterKeepsData == (op = "SchemaData.data" /\ err # "ok") => obj.data = pre.data

\* C9: Data.from_element always assigns name from the name attribute, assigns
\* value only when the node has a value child and display_name only when it
\* has a displayName child.
C9_DecodeFrame ==
    op = "Data.from_element" =>
        /\ obj.name = arg.name
        /\ obj.value = IF arg.value.found THEN arg.value.text ELSE pre.value
        /\ obj.display_name =
              IF arg.displayName.found THEN arg.displayName.text ELSE pre.display_name

\* C9 witness: an entry holding a name, a value and a display name decoded a
\* node with no name attribute, no value child and no displayName child.
C9_Witness ==
    /\ op = "Data.from_element"
    /\ arg.name = NoneV
    /\ ~arg.value.found
    /\ ~arg.displayName.found
    /\ pre.name # NoneV
    /\ pre.value # NoneV
    /\ pre.display_name # NoneV
    /\ obj.name = NoneV

\* the SimpleField each SimpleField child of a node stands for, in document order
FieldsOf(node) ==
    [i \in DOMAIN node.kids |->
        SimpleField(node.kids[i].name, node.kids[i].type, TextOrNone(node.kids[i].displayName))]

\* C10: after a successful Schema.from_element the fields are the fields held
\* before followed by one SimpleField per SimpleField child in document order,
\* while a successful SchemaData.from_element and ExtendedData.from_element
\* leave only what the node holds.
C10_DecodeAppends ==
    /\ (op = "Schema.from_element" /\ err = "ok") => obj.fields = pre.fields \o FieldsOf(arg)
    /\ (op = "SchemaData.from_element" /\ err = "ok")
          => [i \in DOMAIN obj.data |-> <<obj.data[i].name, obj.data[i].value>>]
                = SimpleDataPairs(arg)
    /\ (op = "ExtendedData.from_element" /\ err = "ok")
          => Len(obj.elements) = Len(Tagged(arg, "Data")) + Len(Tagged(arg, "SchemaData"))

\* C10 witness: a Schema decoded the node it had just been filled from, and
\* holds each field twice.
C10_Witness ==
    /\ op = "Schema.from_element"
    /\ err = "ok"
    /\ arg.kids # <<>>
    /\ pre.fields = FieldsOf(arg)
    /\ obj.fields = pre.fields \o pre.fields
====
